---- MODULE Spec2Model ----
(***************************************************************************)
(* Approval workflow of the procure-to-pay backend: purchase requests,     *)
(* their two approval slots, the approve / reject transitions, the         *)
(* finalization that mints a purchase-order number and creates the         *)
(* purchase order.                                                         *)
(***************************************************************************)
EXTENDS Integers, Sequences, FiniteSets, TLC

VARIABLES requests, items, approvals, purchase_orders, now, inflight, result, log, round, probe

vars == <<requests, items, approvals, purchase_orders, now, inflight, result, log, round, probe>>

dbvars == <<requests, items, approvals, purchase_orders>>

(***************************************************************************)
(* Bounds of the model.                                                    *)
(***************************************************************************)
MaxRequests == 1

MaxNow == 1

TicksPerDay == 1

(***************************************************************************)
(* Users, roles and the small input domains.                               *)
(***************************************************************************)
Users == {"staff", "approver1", "approver2", "finance"}

RoleOf == [u \in Users |->
             CASE u = "staff" -> "staff"
               [] u = "approver1" -> "approver_level_1"
               [] u = "approver2" -> "approver_level_2"
               [] u = "finance" -> "finance"]

Roles == {"staff", "approver_level_1", "approver_level_2", "finance"}

RequestStatuses == {"PENDING", "APPROVED_LEVEL_1", "APPROVED_LEVEL_2", "APPROVED", "REJECTED"}

Levels == {"LEVEL_1", "LEVEL_2"}

ApprovalStatuses == {"PENDING", "APPROVED", "REJECTED"}

Comments == {"checked"}

VendorKeys == {"vendor_name", "vendor_address", "vendor_email", "vendor_phone"}

NoUser == "NULL"

\* extracted_data: null, the empty map, or a map holding some vendor keys
NullData == [null |-> TRUE, d |-> <<>>]

MapData(f) == [null |-> FALSE, d |-> f]

(***************************************************************************)
(* RequestItem.  Prices are decimals with two places; a price is held in   *)
(* cents as the record [hi, lo] standing for hi * Limb + lo, so that the   *)
(* widths of the columns (max_digits) are the real ones.  A write goes     *)
(* through RequestItem.save, which computes total_price and hands the row  *)
(* to the database layer; a value wider than its column is refused there.  *)
(***************************************************************************)
Limb == 10^6

UnitPriceDigits == 10

TotalPriceDigits == 12

Cents(hi, lo) == [hi |-> hi, lo |-> lo]

\* quantity * price, exact
DecimalTimes(quantity, price) ==
    Cents(quantity * price.hi + (quantity * price.lo) \div Limb,
          (quantity * price.lo) % Limb)

\* the value has at most max_digits digits, the two decimal places included
FitsColumn(price, max_digits) == price.hi < 10^(max_digits - 6)

NoRow == <<>>

RequestItem_save(item) ==
    LET total_price == DecimalTimes(item.quantity, item.unit_price)
    IN  IF ~FitsColumn(total_price, TotalPriceDigits)
        THEN [outcome |-> "InvalidOperation", row |-> NoRow]
        ELSE [outcome |-> "OK",
              row |-> <<[quantity |-> item.quantity, unit_price |-> item.unit_price,
                         total_price |-> total_price]>>]

(***************************************************************************)
(* What a create call supplies: the amount, the items, and the data        *)
(* extract_proforma_data reads from the uploaded proforma.  The second     *)
(* input asks for 4500.00, lists 3 items at 1000.00 and carries a proforma *)
(* whose total reads 4400.00.                                              *)
(***************************************************************************)
ItemData(quantity, unit_price) ==
    [quantity |-> quantity, unit_price |-> unit_price, total_price |-> <<>>]

CreateInputs ==
    { [amount |-> Cents(0, 0), ed |-> NullData, items |-> <<>>],
      [amount |-> Cents(0, 450000),
       ed |-> MapData([vendor_name |-> "Acme Ltd", total_amount |-> Cents(0, 440000)]),
       items |-> <<ItemData(3, Cents(0, 100000))>>] }

Truthy(ed) == ~ed.null /\ DOMAIN ed.d # {}

DictGet(ed, k) == IF k \in DOMAIN ed.d THEN ed.d[k] ELSE ""

(***************************************************************************)
(* PurchaseRequest: eligibility rules.  A request object is a record       *)
(* [id, row] where row holds the fields of the table row it was loaded     *)
(* from.                                                                   *)
(***************************************************************************)
\* can_approve without the ordering of the levels: level 2 may act on a PENDING request
can_approve_anyLevel(pr, user) ==
    IF pr.row.status = "PENDING" /\ RoleOf[user] \in {"approver_level_1", "approver_level_2"}
    THEN TRUE
    ELSE IF pr.row.status = "APPROVED_LEVEL_1" /\ RoleOf[user] = "approver_level_2" THEN TRUE
    ELSE FALSE

can_approve(pr, user) ==
    IF pr.row.status = "PENDING" /\ RoleOf[user] = "approver_level_1" THEN TRUE
    ELSE IF pr.row.status = "APPROVED_LEVEL_1" /\ RoleOf[user] = "approver_level_2" THEN TRUE
    ELSE FALSE

\* can_reject that forgets the terminal status REJECTED
can_reject_afterReject(pr, user) ==
    /\ RoleOf[user] \in {"approver_level_1", "approver_level_2"}
    /\ pr.row.status \notin {"APPROVED"}

can_reject(pr, user) ==
    /\ RoleOf[user] \in {"approver_level_1", "approver_level_2"}
    /\ pr.row.status \notin {"APPROVED", "REJECTED"}

(***************************************************************************)
(* PO numbers: 'PO-<date>-<seq>' with seq printed by ':04d'.  A number is  *)
(* the record [date, digits]; digits is the decimal string of the counter. *)
(***************************************************************************)
RECURSIVE Digits(_)
Digits(n) == IF n < 10 THEN <<n>> ELSE Append(Digits(n \div 10), n % 10)

RECURSIVE ZeroPad(_, _)
ZeroPad(s, w) == IF Len(s) >= w THEN s ELSE ZeroPad(<<0>> \o s, w)

PadWidth == 4

Format04d(n) == ZeroPad(Digits(n), PadWidth)

RECURSIVE ParseInt(_)
ParseInt(s) == IF s = <<>> THEN 0
               ELSE 10 * ParseInt(SubSeq(s, 1, Len(s) - 1)) + s[Len(s)]

MinOf(a, b) == IF a <= b THEN a ELSE b

\* string order on the digit part (the prefix is equal for one date)
LexLess(a, b) ==
    \/ Len(a) < Len(b) /\ \A j \in 1..Len(a) : a[j] = b[j]
    \/ \E i \in 1..MinOf(Len(a), Len(b)) :
          a[i] < b[i] /\ \A j \in 1..(i - 1) : a[j] = b[j]

DateOf(t) == t \div TicksPerDay

generate_po_number(pos, t) ==
    LET date_str == DateOf(t)
        todays == {po.po_number.digits : po \in {q \in pos : q.po_number.date = date_str}}
    IN  IF todays # {}
        THEN LET last == CHOOSE d \in todays : \A e \in todays : e = d \/ LexLess(e, d)
             IN  [date |-> date_str, digits |-> Format04d(ParseInt(last) + 1)]
        ELSE [date |-> date_str, digits |-> Format04d(1)]

(***************************************************************************)
(* The database as a value, and the rows of its tables.                    *)
(***************************************************************************)
DB ==
    [requests |-> requests, items |-> items, approvals |-> approvals,
     purchase_orders |-> purchase_orders]

EmptyDB == [requests |-> <<>>, items |-> {}, approvals |-> {}, purchase_orders |-> {}]

NewRequestRow(amount, ed) == [status |-> "PENDING", amount |-> amount, extracted_data |-> ed]

NewApproval(r, level) ==
    [purchase_request |-> r, level |-> level, approver |-> NoUser,
     status |-> "PENDING", comments |-> "", approved_at |-> <<>>]

GetRequest(db, r) == [id |-> r, row |-> db.requests[r]]

HasApproval(db, r, level) ==
    \E a \in db.approvals : a.purchase_request = r /\ a.level = level

GetApproval(db, r, level) ==
    CHOOSE a \in db.approvals : a.purchase_request = r /\ a.level = level

\* Model.save() of a loaded row: every column is written back
SaveRequest(db, pr) ==
    [db EXCEPT !.requests = [x \in DOMAIN db.requests \cup {pr.id} |->
                                IF x = pr.id THEN pr.row ELSE db.requests[x]]]

SaveApproval(db, old, new) ==
    [db EXCEPT !.approvals = (db.approvals \ {old}) \cup {new}]

PurchaseOrdersOf(db, r) == {po \in db.purchase_orders : po.purchase_request = r}

(***************************************************************************)
(* ApprovalWorkflowService.  Each operation is a transaction: it maps the  *)
(* database before the call to the database it commits and the outcome     *)
(* the caller sees; an exception rolls the transaction back.               *)
(*   t      the value of timezone.now() / datetime.now() during the call   *)
(*   docOk  whether generate_po_document returns (TRUE) or raises (FALSE)  *)
(***************************************************************************)
Done(db, outcome) == [db |-> db, outcome |-> outcome]

\* create_approval_chain on a table without unique_together: the rows are inserted again
create_approval_chain_noConstraint(db, r) ==
    Done([db EXCEPT !.approvals =
             (db.approvals \ {a \in db.approvals : a.purchase_request = r})
                \cup {NewApproval(r, "LEVEL_1"), NewApproval(r, "LEVEL_2")}],
         "OK")

\* create_approval_chain that creates the LEVEL_1 slot only
create_approval_chain_level1Only(db, r) ==
    IF HasApproval(db, r, "LEVEL_1") THEN Done(db, "IntegrityError")
    ELSE Done([db EXCEPT !.approvals = db.approvals \cup {NewApproval(r, "LEVEL_1")}], "OK")

create_approval_chain(db, r) ==
    IF HasApproval(db, r, "LEVEL_1") \/ HasApproval(db, r, "LEVEL_2")
    THEN Done(db, "IntegrityError")
    ELSE Done([db EXCEPT !.approvals =
                   db.approvals \cup {NewApproval(r, "LEVEL_1"), NewApproval(r, "LEVEL_2")}],
              "OK")

\* vendor fields copied only from a map that holds every vendor key
VendorInfo_allOrNothing(ed) ==
    IF Truthy(ed) /\ VendorKeys \subseteq DOMAIN ed.d THEN [k \in VendorKeys |-> ed.d[k]]
    ELSE [k \in VendorKeys |-> ""]

VendorInfo(ed) ==
    IF Truthy(ed) THEN [k \in VendorKeys |-> DictGet(ed, k)]
    ELSE [k \in VendorKeys |-> ""]

\* a purchase order created without its created_by
NewPurchaseOrder_noCreator(po_number, pr, user) ==
    [po_number |-> po_number,
     purchase_request |-> pr.id,
     vendor_name |-> VendorInfo(pr.row.extracted_data)["vendor_name"],
     vendor_address |-> VendorInfo(pr.row.extracted_data)["vendor_address"],
     vendor_email |-> VendorInfo(pr.row.extracted_data)["vendor_email"],
     vendor_phone |-> VendorInfo(pr.row.extracted_data)["vendor_phone"],
     total_amount |-> pr.row.amount,
     status |-> "GENERATED",
     document |-> <<>>,
     notes |-> "",
     created_by |-> NoUser]

NewPurchaseOrder(po_number, pr, user) ==
    LET vendor_info == VendorInfo(pr.row.extracted_data)
    IN  [po_number |-> po_number,
         purchase_request |-> pr.id,
         vendor_name |-> vendor_info["vendor_name"],
         vendor_address |-> vendor_info["vendor_address"],
         vendor_email |-> vendor_info["vendor_email"],
         vendor_phone |-> vendor_info["vendor_phone"],
         total_amount |-> pr.row.amount,
         status |-> "GENERATED",
         document |-> <<>>,
         notes |-> "",
         created_by |-> user]

\* the purchase-order table with the unique po_number only, no one-to-one link
PoInsertConflicts_numberOnly(db, po) ==
    \E q \in db.purchase_orders : q.po_number = po.po_number

\* the purchase-order table with the one-to-one link only, po_number not unique
PoInsertConflicts_requestOnly(db, po) ==
    \E q \in db.purchase_orders : q.purchase_request = po.purchase_request

\* the unique constraints of the purchase-order table
PoInsertConflicts(db, po) ==
    \E q \in db.purchase_orders :
        q.po_number = po.po_number \/ q.purchase_request = po.purchase_request

\* finalize_approval that creates the purchase order but leaves the status APPROVED_LEVEL_2
finalize_approval_statusKept(db, pr, user, t, docOk) ==
    LET po == NewPurchaseOrder(generate_po_number(db.purchase_orders, t), pr, user)
    IN  IF PoInsertConflicts(db, po) THEN Done(db, "IntegrityError")
        ELSE Done([db EXCEPT !.purchase_orders = db.purchase_orders \cup {po}], "OK")

ItemsOf(db, r) == {x \in db.items : x.purchase_request = r}

DecimalPlus(a, b) == Cents(a.hi + b.hi + (a.lo + b.lo) \div Limb, (a.lo + b.lo) % Limb)

RECURSIVE SumOfTotals(_)
SumOfTotals(rows) ==
    IF rows = {} THEN Cents(0, 0)
    ELSE LET x == CHOOSE y \in rows : TRUE
         IN  DecimalPlus(x.item.total_price, SumOfTotals(rows \ {x}))

\* finalize_approval that totals the order from the items of the request
finalize_approval_itemsTotal(db, pr, user, t, docOk) ==
    LET pr1 == [pr EXCEPT !.row.status = "APPROVED"]
        db1 == SaveRequest(db, pr1)
        po_number == generate_po_number(db1.purchase_orders, t)
        po == [NewPurchaseOrder(po_number, pr1, user) EXCEPT
                  !.total_amount = SumOfTotals(ItemsOf(db, pr.id)),
                  !.document = IF docOk THEN <<po_number>> ELSE <<>>]
    IN  IF PoInsertConflicts(db1, po) THEN Done(db, "IntegrityError")
        ELSE Done([db1 EXCEPT !.purchase_orders = db1.purchase_orders \cup {po}], "OK")

\* finalize_approval that lets the error of generate_po_document propagate
finalize_approval_docRequired(db, pr, user, t, docOk) ==
    LET pr1 == [pr EXCEPT !.row.status = "APPROVED"]
        db1 == SaveRequest(db, pr1)
        po_number == generate_po_number(db1.purchase_orders, t)
        po == [NewPurchaseOrder(po_number, pr1, user) EXCEPT !.document = <<po_number>>]
    IN  IF PoInsertConflicts(db1, po) THEN Done(db, "IntegrityError")
        ELSE IF ~docOk THEN Done(db, "DocumentError")
        ELSE Done([db1 EXCEPT !.purchase_orders = db1.purchase_orders \cup {po}], "OK")

finalize_approval(db, pr, user, t, docOk) ==
    LET pr1 == [pr EXCEPT !.row.status = "APPROVED"]
        db1 == SaveRequest(db, pr1)
        po_number == generate_po_number(db1.purchase_orders, t)
        po == NewPurchaseOrder(po_number, pr1, user)
        withDoc == [po EXCEPT !.document = <<po_number>>]
    IN  IF PoInsertConflicts(db1, po)
        THEN Done(db, "IntegrityError")
        ELSE Done([db1 EXCEPT !.purchase_orders =
                        db1.purchase_orders \cup {IF docOk THEN withDoc ELSE po}],
                  "OK")

LevelOfRole(role) ==
    IF role = "approver_level_1" THEN "LEVEL_1"
    ELSE IF role = "approver_level_2" THEN "LEVEL_2"
    ELSE "NONE"

\* a decision that records status and comment but neither the actor nor the time
Decide_anonymous(approval, status, user, comments, t) ==
    [approval EXCEPT !.status = status, !.comments = comments]

Decide(approval, status, user, comments, t) ==
    [approval EXCEPT !.status = status, !.approver = user,
                     !.comments = comments, !.approved_at = <<t>>]

\* approve_request outside a transaction: a failed finalization leaves the slot and
\* status writes behind
ApproveDecided_noRollback(db, pr, user, comments, t, docOk) ==
    LET approval_level == LevelOfRole(RoleOf[user])
        new_status == IF approval_level = "LEVEL_1" THEN "APPROVED_LEVEL_1"
                      ELSE "APPROVED_LEVEL_2"
        approval == GetApproval(db, pr.id, approval_level)
        db1 == SaveApproval(db, approval, Decide(approval, "APPROVED", user, comments, t))
        pr1 == [pr EXCEPT !.row.status = new_status]
        db2 == SaveRequest(db1, pr1)
    IN  IF new_status = "APPROVED_LEVEL_2"
        THEN LET fin == finalize_approval(db2, pr1, user, t, docOk)
             IN  IF fin.outcome = "OK" THEN fin ELSE Done(db2, fin.outcome)
        ELSE Done(db2, "OK")

\* the steps of approve_request after the eligibility check
ApproveDecided(db, pr, user, comments, t, docOk) ==
    IF LevelOfRole(RoleOf[user]) = "NONE" THEN Done(db, "InvalidRole")
    ELSE LET approval_level == LevelOfRole(RoleOf[user])
             new_status == IF approval_level = "LEVEL_1" THEN "APPROVED_LEVEL_1"
                           ELSE "APPROVED_LEVEL_2"
         IN  IF ~HasApproval(db, pr.id, approval_level) THEN Done(db, "DoesNotExist")
             ELSE LET approval == GetApproval(db, pr.id, approval_level)
                      db1 == SaveApproval(db, approval,
                                          Decide(approval, "APPROVED", user, comments, t))
                      pr1 == [pr EXCEPT !.row.status = new_status]
                      db2 == SaveRequest(db1, pr1)
                  IN  IF new_status = "APPROVED_LEVEL_2"
                      THEN LET fin == finalize_approval(db2, pr1, user, t, docOk)
                           IN  IF fin.outcome = "OK" THEN fin ELSE Done(db, fin.outcome)
                      ELSE Done(db2, "OK")

\* approve_request without its eligibility check
approve_request_unchecked(db, pr, user, comments, t, docOk) ==
    ApproveDecided(db, pr, user, comments, t, docOk)

approve_request(db, pr, user, comments, t, docOk) ==
    IF ~can_approve(pr, user) THEN Done(db, "NotAuthorizedToApprove")
    ELSE ApproveDecided(db, pr, user, comments, t, docOk)

\* the steps of reject_request after the eligibility check, on the slot of a level
RejectDecided(db, pr, approval_level, user, comments, t) ==
    IF ~HasApproval(db, pr.id, approval_level) THEN Done(db, "DoesNotExist")
    ELSE LET approval == GetApproval(db, pr.id, approval_level)
             db1 == SaveApproval(db, approval,
                                 Decide(approval, "REJECTED", user, comments, t))
             pr1 == [pr EXCEPT !.row.status = "REJECTED"]
         IN  Done(SaveRequest(db1, pr1), "OK")

\* reject_request that records every rejection on the LEVEL_1 slot
reject_request_firstSlot(db, pr, user, comments, t) ==
    IF ~can_reject(pr, user) THEN Done(db, "NotAuthorizedToReject")
    ELSE RejectDecided(db, pr, "LEVEL_1", user, comments, t)

\* reject_request that records the decision but leaves the request status as it was
reject_request_statusKept(db, pr, user, comments, t) ==
    IF ~can_reject(pr, user) THEN Done(db, "NotAuthorizedToReject")
    ELSE LET res == RejectDecided(db, pr, LevelOfRole(RoleOf[user]), user, comments, t)
         IN  Done([res.db EXCEPT !.requests = db.requests], res.outcome)

\* reject_request that records the rejection on the slots of both levels
reject_request_bothSlots(db, pr, user, comments, t) ==
    IF ~can_reject(pr, user) THEN Done(db, "NotAuthorizedToReject")
    ELSE LET res == RejectDecided(db, pr, "LEVEL_1", user, comments, t)
         IN  IF res.outcome # "OK" THEN res
             ELSE RejectDecided(res.db, pr, "LEVEL_2", user, comments, t)

\* reject_request without its eligibility check
reject_request_unchecked(db, pr, user, comments, t) ==
    IF LevelOfRole(RoleOf[user]) = "NONE" THEN Done(db, "InvalidRole")
    ELSE RejectDecided(db, pr, LevelOfRole(RoleOf[user]), user, comments, t)

reject_request(db, pr, user, comments, t) ==
    IF ~can_reject(pr, user) THEN Done(db, "NotAuthorizedToReject")
    ELSE IF LevelOfRole(RoleOf[user]) = "NONE" THEN Done(db, "InvalidRole")
    ELSE RejectDecided(db, pr, LevelOfRole(RoleOf[user]), user, comments, t)

\* one service call on a request object, whatever the operation
RunCall(db, op, pr, user, comments, t, docOk) ==
    IF op = "approve" THEN approve_request(db, pr, user, comments, t, docOk)
    ELSE reject_request(db, pr, user, comments, t)

(***************************************************************************)
(* State machine.                                                          *)
(*   requests, approvals, purchase_orders   the committed tables           *)
(*   now        the clock read by timezone.now() and datetime.now()        *)
(*   inflight   per HTTP worker, the request object its view has loaded    *)
(*   result     what the last finished call returned to its caller: "OK"   *)
(*              or the error it raised                                     *)
(*   log        per request ever created, the calls that committed a       *)
(*              transition (the entry outlives the deletion of the row)    *)
(*   round      the database when a group of overlapping calls started,    *)
(*              and the calls of that group                                *)
(*   probe      the arguments handed to a function checked on its own (a   *)
(*              request object and an actor for the eligibility            *)
(*              predicates, the data of an item for RequestItem.save),     *)
(*              with the values it returned                                *)
(***************************************************************************)
Procs == {"A", "B"}

Ops == {"approve", "reject"}

NoRequestObject == [id |-> 0, row |-> NewRequestRow(Cents(0, 0), NullData)]

IdleCall == [pc |-> "idle", op |-> "none", user |-> NoUser, pr |-> NoRequestObject]

NoResult == "none"

NoRound == [base |-> EmptyDB, calls |-> <<>>, more |-> FALSE]

NoProbe == [pr |-> NoRequestObject, user |-> "staff", approve |-> <<>>, reject |-> <<>>]

RequestIds == DOMAIN requests

Init ==
    /\ requests = <<>>
    /\ items = {}
    /\ approvals = {}
    /\ purchase_orders = {}
    /\ now = 0
    /\ inflight = [p \in Procs |-> IdleCall]
    /\ result = NoResult
    /\ log = <<>>
    /\ round = NoRound
    /\ probe = NoProbe

Install(db) ==
    /\ requests' = db.requests
    /\ items' = db.items
    /\ approvals' = db.approvals
    /\ purchase_orders' = db.purchase_orders

Logged(r, op, user, outcome) ==
    IF outcome = "OK"
    THEN [log EXCEPT ![r] = Append(@, [op |-> op, user |-> user])]
    ELSE log

\* the loop over items_data: RequestItem.objects.create for each, in order, until one
\* raises; total_price is not among the validated fields
RECURSIVE CreateItems(_, _, _, _)
CreateItems(db, r, items_data, n) ==
    IF n > Len(items_data) THEN Done(db, "OK")
    ELSE LET saved == RequestItem_save([items_data[n] EXCEPT !.total_price = <<>>])
         IN  IF saved.outcome # "OK" THEN Done(db, saved.outcome)
             ELSE CreateItems([db EXCEPT !.items =
                                  @ \cup {[purchase_request |-> r, n |-> n, item |-> saved.row[1]]}],
                              r, items_data, n + 1)

\* PurchaseRequestViewSet.create with PurchaseRequestCreateSerializer.create
CreateRequest(user, amount, ed, items_data) ==
    /\ Cardinality(DOMAIN log) < MaxRequests
    /\ LET r == Cardinality(DOMAIN log) + 1
           pr == [id |-> r, row |-> NewRequestRow(amount, ed)]
           withItems == CreateItems(SaveRequest(DB, pr), r, items_data, 1)
           chain == IF withItems.outcome = "OK" THEN create_approval_chain(withItems.db, r)
                    ELSE withItems
       IN  IF RoleOf[user] # "staff"
           THEN /\ result' = "Forbidden"
                /\ UNCHANGED <<dbvars, log>>
           ELSE /\ Install(chain.db)
                /\ log' = [x \in DOMAIN log \cup {r} |-> IF x = r THEN <<>> ELSE log[x]]
                /\ result' = chain.outcome
    /\ UNCHANGED <<now, inflight, round, probe>>

\* a direct call of the service on the request as it is in the database
ServiceCall(op, r, user, comments, docOk) ==
    /\ r \in RequestIds
    /\ \A p \in Procs : inflight[p].pc = "idle"
    /\ LET res == RunCall(DB, op, GetRequest(DB, r), user, comments, now, docOk)
       IN  /\ Install(res.db)
           /\ result' = res.outcome
           /\ log' = Logged(r, op, user, res.outcome)
    /\ UNCHANGED <<now, inflight, round, probe>>

ApproveRequest(r, user, comments, docOk) == ServiceCall("approve", r, user, comments, docOk)

RejectRequest(r, user, comments) == ServiceCall("reject", r, user, comments, TRUE)

Tick ==
    /\ now < MaxNow
    /\ now' = now + 1
    /\ UNCHANGED <<dbvars, inflight, result, log, round, probe>>

Next ==
    \/ \E user \in Users, in \in CreateInputs :
          CreateRequest(user, in.amount, in.ed, in.items)
    \/ \E r \in RequestIds, user \in Users, comments \in Comments, docOk \in BOOLEAN :
          ApproveRequest(r, user, comments, docOk)
    \/ \E r \in RequestIds, user \in Users, comments \in Comments :
          RejectRequest(r, user, comments)
    \/ Tick

Spec == Init /\ [][Next]_vars

(***************************************************************************)
(* The serial calls, and create_approval_chain called again on a request   *)
(* that is already in the database.                                        *)
(***************************************************************************)
CallCreateApprovalChain(r) ==
    /\ r \in RequestIds
    /\ \A p \in Procs : inflight[p].pc = "idle"
    /\ LET res == create_approval_chain(DB, r)
       IN  /\ Install(res.db)
           /\ result' = res.outcome
    /\ UNCHANGED <<now, inflight, log, round, probe>>

NextChain ==
    \/ Next
    \/ \E r \in RequestIds : CallCreateApprovalChain(r)

SpecChain == Init /\ [][NextChain]_vars

(***************************************************************************)
(* The HTTP endpoints approve and reject, run by concurrent workers.  A    *)
(* worker first loads the request object (get_object on the queryset of    *)
(* the caller's role), later runs the service transaction on that object.  *)
(***************************************************************************)
IsAnyApprover(user) == RoleOf[user] \in {"approver_level_1", "approver_level_2"}

\* get_queryset without the filter by role: every caller may fetch every row
Visible_unfiltered(db, r, user) == r \in DOMAIN db.requests

\* get_queryset: the rows the caller's role may fetch
Visible(db, r, user) ==
    /\ r \in DOMAIN db.requests
    /\ CASE RoleOf[user] = "approver_level_1" -> db.requests[r].status = "PENDING"
         [] RoleOf[user] = "approver_level_2" -> db.requests[r].status = "APPROVED_LEVEL_1"
         [] RoleOf[user] = "finance" -> db.requests[r].status \in {"APPROVED", "APPROVED_LEVEL_2"}
         [] OTHER -> TRUE

AllIdle == \A p \in Procs : inflight[p].pc = "idle"

ViewBegin(p, op, r, user) ==
    /\ inflight[p].pc = "idle"
    /\ r \in RequestIds
    /\ IF ~IsAnyApprover(user)
       THEN /\ result' = "Forbidden"
            /\ UNCHANGED <<inflight, round>>
       ELSE IF ~Visible(DB, r, user)
       THEN /\ result' = "NotFound"
            /\ UNCHANGED <<inflight, round>>
       ELSE /\ inflight' = [inflight EXCEPT ![p] =
                               [pc |-> "loaded", op |-> op, user |-> user,
                                pr |-> GetRequest(DB, r)]]
            /\ round' = LET c == [op |-> op, user |-> user, req |-> r]
                        IN  IF AllIdle THEN [base |-> DB, calls |-> <<c>>, more |-> FALSE]
                            ELSE IF Len(round.calls) = 1 /\ ~round.more
                            THEN [round EXCEPT !.calls = Append(@, c)]
                            ELSE [base |-> EmptyDB, calls |-> <<>>, more |-> TRUE]
            /\ UNCHANGED result
    /\ UNCHANGED <<dbvars, now, log, probe>>

ViewCommit(p, comments, docOk) ==
    /\ inflight[p].pc = "loaded"
    /\ LET c == inflight[p]
           res == RunCall(DB, c.op, c.pr, c.user, comments, now, docOk)
       IN  /\ Install(res.db)
           /\ result' = res.outcome
           /\ log' = Logged(c.pr.id, c.op, c.user, res.outcome)
    /\ inflight' = [inflight EXCEPT ![p] = IdleCall]
    /\ UNCHANGED <<now, round, probe>>

NextConc ==
    \/ \E user \in Users, in \in CreateInputs :
          CreateRequest(user, in.amount, in.ed, in.items)
    \/ \E p \in Procs, op \in Ops, r \in RequestIds, user \in Users :
          ViewBegin(p, op, r, user)
    \/ \E p \in Procs, comments \in Comments, docOk \in BOOLEAN :
          ViewCommit(p, comments, docOk)
    \/ Tick

SpecConc == Init /\ [][NextConc]_vars

(***************************************************************************)
(* The endpoints that are not workflow transitions: update, destroy,       *)
(* upload_proforma and upload_receipt.  None of them runs in a             *)
(* transaction: the view loads the request object and checks the caller    *)
(* against it (EditBegin), and later writes (EditCommit); save() writes    *)
(* every column of the loaded object, delete() removes the row and, by     *)
(* cascade, its items, slots and purchase order.  Of the columns an edit   *)
(* can set the model keeps amount; an upload of a proforma sets            *)
(* extracted_data; a receipt is a file column the model does not keep.     *)
(***************************************************************************)
\* the edits in flight at one time
MaxEdits == 1

EditOps == {"update", "destroy", "upload_proforma", "upload_receipt"}

\* what the update of the model sends: amount 9900.00 and one item of 9900.00
EditAmount == Cents(0, 990000)

EditItems == <<ItemData(1, Cents(0, 990000))>>

\* what extract_proforma_data reads from the proforma of the model's upload
UploadedData == MapData([vendor_name |-> "Bolt Inc"])

\* CanModifyPurchaseRequest
CanModifyPurchaseRequest(pr, user) ==
    RoleOf[user] = "staff" /\ pr.row.status \in {"PENDING", "REJECTED"}

\* the answer of the view before it writes: "go" or the error response
EditAdmission(db, op, r, user) ==
    IF op \in {"update", "destroy"}
    THEN IF RoleOf[user] # "staff" THEN "Forbidden"
         ELSE IF ~Visible(db, r, user) THEN "NotFound"
         ELSE IF ~CanModifyPurchaseRequest(GetRequest(db, r), user) THEN "Forbidden"
         ELSE "go"
    ELSE IF ~Visible(db, r, user) THEN "NotFound"
    ELSE IF op = "upload_proforma" /\ RoleOf[user] # "staff" THEN "Forbidden"
    ELSE IF op = "upload_receipt" /\ RoleOf[user] \notin {"staff", "finance"} THEN "Forbidden"
    ELSE "go"

\* instance.delete() with on_delete=CASCADE on items, approvals and the purchase order
DeleteRequest(db, r) ==
    [requests |-> [x \in DOMAIN db.requests \ {r} |-> db.requests[x]],
     items |-> {x \in db.items : x.purchase_request # r},
     approvals |-> {a \in db.approvals : a.purchase_request # r},
     purchase_orders |-> {po \in db.purchase_orders : po.purchase_request # r}]

\* PurchaseRequestDetailSerializer.update: the fields, save(), then the items replaced
SerializerUpdate(db, pr) ==
    LET db1 == SaveRequest(db, [pr EXCEPT !.row.amount = EditAmount])
        db2 == [db1 EXCEPT !.items = {x \in db1.items : x.purchase_request # pr.id}]
    IN  CreateItems(db2, pr.id, EditItems, 1)

\* the writes of an admitted call on the object it loaded
EditWrite(db, op, pr) ==
    CASE op = "update" -> SerializerUpdate(db, pr)
      [] op = "destroy" -> Done(DeleteRequest(db, pr.id), "OK")
      [] op = "upload_proforma" ->
            Done(SaveRequest(db, [pr EXCEPT !.row.extracted_data = UploadedData]), "OK")
      [] op = "upload_receipt" -> Done(SaveRequest(db, pr), "OK")

EditBegin(p, op, r, user) ==
    /\ Cardinality({q \in Procs : inflight[q].pc = "editing"}) < MaxEdits
    /\ inflight[p].pc = "idle"
    /\ r \in RequestIds
    /\ LET admission == EditAdmission(DB, op, r, user)
       IN  IF admission # "go"
           THEN /\ result' = admission
                /\ UNCHANGED inflight
           ELSE /\ inflight' = [inflight EXCEPT ![p] =
                                   [pc |-> "editing", op |-> op, user |-> user,
                                    pr |-> GetRequest(DB, r)]]
                /\ UNCHANGED result
    /\ UNCHANGED <<dbvars, now, log, round, probe>>

EditCommit(p) ==
    /\ inflight[p].pc = "editing"
    /\ LET res == EditWrite(DB, inflight[p].op, inflight[p].pr)
       IN  /\ Install(res.db)
           /\ result' = res.outcome
    /\ inflight' = [inflight EXCEPT ![p] = IdleCall]
    /\ UNCHANGED <<now, log, round, probe>>

\* an approve or reject endpoint served in one piece while edits may be in flight
TransitionCall(op, r, user, comments, docOk) ==
    /\ r \in RequestIds
    /\ IF ~IsAnyApprover(user)
       THEN /\ result' = "Forbidden"
            /\ UNCHANGED dbvars
       ELSE IF ~Visible(DB, r, user)
       THEN /\ result' = "NotFound"
            /\ UNCHANGED dbvars
       ELSE LET res == RunCall(DB, op, GetRequest(DB, r), user, comments, now, docOk)
            IN  /\ Install(res.db)
                /\ result' = res.outcome
    /\ UNCHANGED <<now, inflight, log, round, probe>>

\* the approve and reject endpoints called one after the other
NextHttp ==
    \/ \E user \in Users, in \in CreateInputs :
          CreateRequest(user, in.amount, in.ed, in.items)
    \/ \E op \in Ops, r \in RequestIds, user \in Users,
          comments \in Comments, docOk \in BOOLEAN :
          TransitionCall(op, r, user, comments, docOk)
    \/ Tick

SpecHttp == Init /\ [][NextHttp]_vars

NextEdit ==
    \/ \E user \in Users, in \in CreateInputs :
          CreateRequest(user, in.amount, in.ed, in.items)
    \/ \E op \in Ops, r \in RequestIds, user \in Users,
          comments \in Comments, docOk \in BOOLEAN :
          TransitionCall(op, r, user, comments, docOk)
    \/ \E p \in Procs, op \in EditOps, r \in RequestIds, user \in Users :
          EditBegin(p, op, r, user)
    \/ \E p \in Procs : EditCommit(p)
    \/ Tick

SpecEdit == Init /\ [][NextEdit]_vars

(***************************************************************************)
(* The eligibility predicates as functions of their arguments: a request   *)
(* object of any status and an actor of any role are drawn, and each       *)
(* predicate is applied to them.                                           *)
(***************************************************************************)
ProbeInputs ==
    { [pr |-> [id |-> 1, row |-> [NewRequestRow(in.amount, in.ed) EXCEPT !.status = s]],
       user |-> u, approve |-> <<>>, reject |-> <<>>] :
         s \in RequestStatuses, in \in CreateInputs, u \in Users }

InitProbe ==
    /\ requests = <<>>
    /\ items = {}
    /\ approvals = {}
    /\ purchase_orders = {}
    /\ now = 0
    /\ inflight = [p \in Procs |-> IdleCall]
    /\ result = NoResult
    /\ log = <<>>
    /\ round = NoRound
    /\ probe \in ProbeInputs

CallCanApprove ==
    /\ probe.approve = <<>>
    /\ probe' = [probe EXCEPT !.approve = <<can_approve(probe.pr, probe.user)>>]
    /\ UNCHANGED <<dbvars, now, inflight, result, log, round>>

CallCanReject ==
    /\ probe.reject = <<>>
    /\ probe' = [probe EXCEPT !.reject = <<can_reject(probe.pr, probe.user)>>]
    /\ UNCHANGED <<dbvars, now, inflight, result, log, round>>

NextProbe == CallCanApprove \/ CallCanReject

SpecProbe == InitProbe /\ [][NextProbe]_vars

(***************************************************************************)
(* The transaction of a service call in two steps, for calls on different  *)
(* requests that overlap inside their transactions.  The worker's          *)
(* transaction reads the purchase-order table when generate_po_number      *)
(* runs its query (TxRead); its writes reach the committed tables when it  *)
(* commits (TxCommit), where the unique indexes are checked against the    *)
(* rows committed by then.  The run starts with TxRequests requests that   *)
(* were created and approved at level 1.                                   *)
(***************************************************************************)
TxRequests == 2

RECURSIVE AwaitingLevel2(_)
AwaitingLevel2(n) ==
    IF n = 0 THEN EmptyDB
    ELSE LET db0 == AwaitingLevel2(n - 1)
             pr == [id |-> n, row |-> NewRequestRow(Cents(0, 450000), NullData)]
             db1 == create_approval_chain(SaveRequest(db0, pr), n).db
         IN  approve_request(db1, GetRequest(db1, n), "approver1", "checked", 0, TRUE).db

InitTx ==
    /\ requests = AwaitingLevel2(TxRequests).requests
    /\ items = AwaitingLevel2(TxRequests).items
    /\ approvals = AwaitingLevel2(TxRequests).approvals
    /\ purchase_orders = AwaitingLevel2(TxRequests).purchase_orders
    /\ now = 0
    /\ inflight = [p \in Procs |-> IdleCall]
    /\ result = NoResult
    /\ log = [r \in 1..TxRequests |-> <<[op |-> "approve", user |-> "approver1"]>>]
    /\ round = NoRound
    /\ probe = NoProbe

\* generate_po_number's query inside the open transaction
TxRead(p) ==
    /\ inflight[p].pc = "loaded"
    /\ inflight' = [inflight EXCEPT ![p] =
                       [pc |-> "read", op |-> inflight[p].op, user |-> inflight[p].user,
                        pr |-> inflight[p].pr, seen |-> purchase_orders, t |-> now]]
    /\ UNCHANGED <<dbvars, now, result, log, round, probe>>

\* the rest of the transaction and its commit
TxCommit(p, comments, docOk) ==
    /\ inflight[p].pc = "read"
    /\ LET c == inflight[p]
           res == RunCall([DB EXCEPT !.purchase_orders = c.seen],
                          c.op, c.pr, c.user, comments, c.t, docOk)
           inserted == res.db.purchase_orders \ c.seen
       IN  IF res.outcome = "OK" /\ \E po \in inserted : PoInsertConflicts(DB, po)
           THEN /\ result' = "IntegrityError"
                /\ UNCHANGED <<dbvars, log>>
           ELSE /\ Install([res.db EXCEPT !.purchase_orders = purchase_orders \cup inserted])
                /\ result' = res.outcome
                /\ log' = Logged(c.pr.id, c.op, c.user, res.outcome)
    /\ inflight' = [inflight EXCEPT ![p] = IdleCall]
    /\ UNCHANGED <<now, round, probe>>

NextTx ==
    \/ \E p \in Procs, op \in Ops, r \in RequestIds, user \in Users :
          ViewBegin(p, op, r, user)
    \/ \E p \in Procs : TxRead(p)
    \/ \E p \in Procs, comments \in Comments, docOk \in BOOLEAN :
          TxCommit(p, comments, docOk)
    \/ Tick

SpecTx == InitTx /\ [][NextTx]_vars

(***************************************************************************)
(* Late on a busy day: the purchase-order table already holds the orders   *)
(* of the day's earlier finalizations, numbered 1..n by                    *)
(* generate_po_number.  Of these the model keeps the SeedWindow rows with  *)
(* the greatest counters; the rows below them, and the approved requests   *)
(* and slots the orders belong to (ids -1, -2, ...), are never read or     *)
(* written by the calls of the model and are left out.                     *)
(***************************************************************************)
SeedWindow == 2

\* the greatest counter that fits the pad width
MaxPadded == 10^PadWidth - 1

SeedCounts == {MaxPadded - 1, MaxPadded, MaxPadded + 1}

SeedOrder(k) ==
    [po_number |-> [date |-> DateOf(0), digits |-> Format04d(k)],
     purchase_request |-> 0 - k,
     vendor_name |-> "", vendor_address |-> "", vendor_email |-> "", vendor_phone |-> "",
     total_amount |-> Cents(0, 0),
     status |-> "GENERATED",
     document |-> <<[date |-> DateOf(0), digits |-> Format04d(k)]>>,
     notes |-> "",
     created_by |-> "approver2"]

SeedOrders(n) == {SeedOrder(k) : k \in (n - SeedWindow + 1)..n}

InitBusyDay ==
    /\ requests = <<>>
    /\ items = {}
    /\ approvals = {}
    /\ purchase_orders \in {SeedOrders(n) : n \in SeedCounts}
    /\ now = 0
    /\ inflight = [p \in Procs |-> IdleCall]
    /\ result = NoResult
    /\ log = <<>>
    /\ round = NoRound
    /\ probe = NoProbe

SpecBusyDay == InitBusyDay /\ [][Next]_vars

(***************************************************************************)
(* Request creation with an item the item table cannot hold: the           *)
(* serializer accepts quantity 101 at unit price 99999999.99 (total_price  *)
(* is read-only, unit_price has its 10 digits), and RequestItem.save       *)
(* fails on the 13-digit total after the request row is written.           *)
(***************************************************************************)
OverflowInputs ==
    { [amount |-> Cents(0, 450000), ed |-> NullData,
       items |-> <<ItemData(1, Cents(0, 100000)), ItemData(101, Cents(9999, 999999))>>] }

NextCreate ==
    \/ Next
    \/ \E user \in Users, in \in OverflowInputs :
          CreateRequest(user, in.amount, in.ed, in.items)

SpecCreate == Init /\ [][NextCreate]_vars

(***************************************************************************)
(* generate_po_number called on its own, between the serial calls of a     *)
(* busy day.  The call is given the database and gives back the database   *)
(* it leaves and the number it returns; probe keeps the last number        *)
(* returned, the purchase-order table it was computed from and the count   *)
(* of the calls made.                                                      *)
(***************************************************************************)
MaxNumberCalls == 2

NoNumber == [date |-> 0 - 1, digits |-> <<>>]

\* a generator that reserves the number it returns by inserting a row for it
GeneratePoNumberCall_reserving(db, t) ==
    LET number == generate_po_number(db.purchase_orders, t)
    IN  [db |-> [db EXCEPT !.purchase_orders =
                     @ \cup {[SeedOrder(0) EXCEPT !.po_number = number]}],
         number |-> number]

GeneratePoNumberCall(db, t) ==
    [db |-> db, number |-> generate_po_number(db.purchase_orders, t)]

InitNumber ==
    /\ requests = <<>>
    /\ items = {}
    /\ approvals = {}
    /\ purchase_orders \in {SeedOrders(n) : n \in SeedCounts}
    /\ now = 0
    /\ inflight = [p \in Procs |-> IdleCall]
    /\ result = NoResult
    /\ log = <<>>
    /\ round = NoRound
    /\ probe = [number |-> NoNumber, seen |-> {}, calls |-> 0]

CallGeneratePoNumber ==
    /\ probe.calls < MaxNumberCalls
    /\ LET res == GeneratePoNumberCall(DB, now)
       IN  /\ Install(res.db)
           /\ probe' = [number |-> res.number, seen |-> purchase_orders,
                        calls |-> probe.calls + 1]
    /\ UNCHANGED <<now, inflight, result, log, round>>

NextNumber ==
    \/ \E user \in Users, in \in CreateInputs :
          CreateRequest(user, in.amount, in.ed, in.items)
    \/ \E r \in RequestIds, user \in Users, comments \in Comments, docOk \in BOOLEAN :
          ApproveRequest(r, user, comments, docOk)
    \/ CallGeneratePoNumber
    \/ Tick

SpecNumber == InitNumber /\ [][NextNumber]_vars

(***************************************************************************)
(* PurchaseOrderViewSet.update_status, the one endpoint that writes a      *)
(* purchase order after its creation, called between the serial workflow   *)
(* calls.  probe keeps the last call that was answered 200.                *)
(***************************************************************************)
PoStatuses == {"GENERATED", "SENT", "COMPLETED", "CANCELLED"}

\* the values a caller may send as status
StatusInputs == PoStatuses \cup {"processing"}

NoStatusCall == [po_number |-> NoNumber, user |-> NoUser, status |-> "none"]

\* update_status that takes any value from any authenticated caller
update_status_unrestricted(db, po, user, new_status) ==
    Done([db EXCEPT !.purchase_orders = (@ \ {po}) \cup {[po EXCEPT !.status = new_status]}],
         "OK")

update_status(db, po, user, new_status) ==
    IF RoleOf[user] # "finance" THEN Done(db, "Forbidden")
    ELSE IF new_status \notin PoStatuses THEN Done(db, "BadRequest")
    ELSE Done([db EXCEPT !.purchase_orders =
                   (@ \ {po}) \cup {[po EXCEPT !.status = new_status]}],
              "OK")

InitOrders ==
    /\ requests = <<>>
    /\ items = {}
    /\ approvals = {}
    /\ purchase_orders = {}
    /\ now = 0
    /\ inflight = [p \in Procs |-> IdleCall]
    /\ result = NoResult
    /\ log = <<>>
    /\ round = NoRound
    /\ probe = NoStatusCall

UpdateStatus(po, user, new_status) ==
    /\ po \in purchase_orders
    /\ LET res == update_status(DB, po, user, new_status)
       IN  /\ Install(res.db)
           /\ result' = res.outcome
           /\ probe' = IF res.outcome = "OK"
                       THEN [po_number |-> po.po_number, user |-> user, status |-> new_status]
                       ELSE probe
    /\ UNCHANGED <<now, inflight, log, round>>

NextOrders ==
    \/ \E user \in Users, in \in CreateInputs :
          CreateRequest(user, in.amount, in.ed, in.items)
    \/ \E r \in RequestIds, user \in Users, comments \in Comments, docOk \in BOOLEAN :
          ApproveRequest(r, user, comments, docOk)
    \/ \E po \in purchase_orders, user \in Users, new_status \in StatusInputs :
          UpdateStatus(po, user, new_status)
    \/ \E r \in RequestIds, user \in Users, comments \in Comments :
          RejectRequest(r, user, comments)

SpecOrders == InitOrders /\ [][NextOrders]_vars

(***************************************************************************)
(* generate_po_document as a function of the purchase order and the items  *)
(* of its request.  A text is the sequence of its characters; the          *)
(* document is the list of the blocks the function appends: the vendor     *)
(* block and the items table are absent (<<>>) or present (one element).   *)
(***************************************************************************)
DescriptionWidth == 50

\* a text of n characters
Text(n) == [i \in 1..n |-> i % 10]

\* s[:w]
Slice(s, w) == SubSeq(s, 1, MinOf(Len(s), w))

\* value or 'N/A'
OrNA(value) == IF value = "" THEN "N/A" ELSE value

ItemRow(item) ==
    [item_name |-> item.item_name,
     description |-> Slice(item.description, DescriptionWidth),
     quantity |-> item.quantity]

VendorBlock(po) ==
    [name |-> po.vendor_name, email |-> OrNA(po.vendor_email),
     phone |-> OrNA(po.vendor_phone), address |-> OrNA(po.vendor_address)]

\* the generator without the cut of the description column
generate_po_document_uncut(po, request_items) ==
    [filename |-> po.po_number,
     vendor |-> IF po.vendor_name # "" THEN <<VendorBlock(po)>> ELSE <<>>,
     items |-> IF request_items # <<>>
               THEN <<[n \in 1..Len(request_items) |->
                         [ItemRow(request_items[n]) EXCEPT
                             !.description = request_items[n].description]]>>
               ELSE <<>>,
     total |-> po.total_amount]

generate_po_document(po, request_items) ==
    [filename |-> po.po_number,
     vendor |-> IF po.vendor_name # "" THEN <<VendorBlock(po)>> ELSE <<>>,
     items |-> IF request_items # <<>>
               THEN <<[n \in 1..Len(request_items) |-> ItemRow(request_items[n])]>>
               ELSE <<>>,
     total |-> po.total_amount]

\* descriptions below, at and above the width of the column, and the empty one
DescriptionLengths == {0, DescriptionWidth - 1, DescriptionWidth, DescriptionWidth + 1}

DocumentItem(name, len) == [item_name |-> name, description |-> Text(len), quantity |-> 1]

DocumentItems ==
    {<<>>}
    \cup {<<DocumentItem("paper", len)>> : len \in DescriptionLengths}
    \cup {<<DocumentItem("paper", len), DocumentItem("ink", DescriptionWidth + 1)>> :
              len \in DescriptionLengths}

DocumentOrders ==
    { [SeedOrder(1) EXCEPT !.vendor_name = vn, !.vendor_address = va,
                           !.vendor_email = ve, !.vendor_phone = vp] :
          vn \in {"", "Acme Ltd"}, va \in {"", "1 Main St"},
          ve \in {"", "sales@acme.test"}, vp \in {"", "555-010-0000"} }

DocumentInputs ==
    { [po |-> po, items |-> its, document |-> <<>>] :
          po \in DocumentOrders, its \in DocumentItems }

InitDocument ==
    /\ requests = <<>>
    /\ items = {}
    /\ approvals = {}
    /\ purchase_orders = {}
    /\ now = 0
    /\ inflight = [p \in Procs |-> IdleCall]
    /\ result = NoResult
    /\ log = <<>>
    /\ round = NoRound
    /\ probe \in DocumentInputs

CallGeneratePoDocument ==
    /\ probe.document = <<>>
    /\ probe' = [probe EXCEPT !.document = <<generate_po_document(probe.po, probe.items)>>]
    /\ UNCHANGED <<dbvars, now, inflight, result, log, round>>

NextDocument == CallGeneratePoDocument

SpecDocument == InitDocument /\ [][NextDocument]_vars

(***************************************************************************)
(* RequestItem.save applied to item data drawn from small sets.            *)
(***************************************************************************)
\* item data as a caller can supply them: quantity >= 1, unit price >= 0 within its
\* column, and possibly a total_price
ItemQuantities == {1, 2, 3, 100, 101}

\* 0.00, 0.01, 1500.00 and the greatest price of UnitPriceDigits digits
ItemUnitPrices ==
    {Cents(0, 0), Cents(0, 1), Cents(0, 150000),
     Cents(10^(UnitPriceDigits - 6) - 1, Limb - 1)}

ItemTotals == {<<>>, <<Cents(0, 100)>>, <<Cents(0, 450000)>>}

ItemInputs ==
    { [item |-> [quantity |-> q, unit_price |-> u, total_price |-> t], saved |-> <<>>] :
         q \in ItemQuantities, u \in ItemUnitPrices, t \in ItemTotals }

InitItems ==
    /\ requests = <<>>
    /\ items = {}
    /\ approvals = {}
    /\ purchase_orders = {}
    /\ now = 0
    /\ inflight = [p \in Procs |-> IdleCall]
    /\ result = NoResult
    /\ log = <<>>
    /\ round = NoRound
    /\ probe \in ItemInputs

\* RequestItem.objects.create(purchase_request=..., **item_data) with the item data
\* validated by RequestItemSerializer, where total_price is read-only
SerializerCreateItem ==
    /\ probe.saved = <<>>
    /\ probe' = [probe EXCEPT !.saved =
                     <<RequestItem_save([probe.item EXCEPT !.total_price = <<>>])>>]
    /\ UNCHANGED <<dbvars, now, inflight, result, log, round>>

\* RequestItem.objects.create called with the item data as they are
DirectCreateItem ==
    /\ probe.saved = <<>>
    /\ probe' = [probe EXCEPT !.saved = <<RequestItem_save(probe.item)>>]
    /\ UNCHANGED <<dbvars, now, inflight, result, log, round>>

NextItems == SerializerCreateItem \/ DirectCreateItem

SpecItems == InitItems /\ [][NextItems]_vars

(***************************************************************************)
(* Properties.                                                             *)
(***************************************************************************)
StatusOf(r) == requests[r].status

SlotOf(r, level) == GetApproval(DB, r, level)

SlotStatus(r, level) == SlotOf(r, level).status

Level1Users == {u \in Users : RoleOf[u] = "approver_level_1"}

Level2Users == {u \in Users : RoleOf[u] = "approver_level_2"}

ApprovedBy(entry, us) == entry.op = "approve" /\ entry.user \in us

\* C1: on a freshly created request, approve_request by a level-1 approver and then
\* approve_request by a level-2 approver both succeed and take the committed status
\* PENDING -> APPROVED_LEVEL_1 -> APPROVED; afterwards both slots are APPROVED and
\* exactly one PurchaseOrder belongs to the request.
C1_ApproveBothLevels ==
    \A r \in RequestIds :
        /\ log[r] = <<>> =>
              /\ StatusOf(r) = "PENDING"
              /\ SlotStatus(r, "LEVEL_1") = "PENDING" /\ SlotStatus(r, "LEVEL_2") = "PENDING"
              /\ \A u \in Level1Users, c \in Comments, d \in BOOLEAN :
                    LET res == approve_request(DB, GetRequest(DB, r), u, c, now, d)
                    IN  res.outcome = "OK" /\ res.db.requests[r].status = "APPROVED_LEVEL_1"
        /\ (Len(log[r]) = 1 /\ ApprovedBy(log[r][1], Level1Users)) =>
              /\ StatusOf(r) = "APPROVED_LEVEL_1"
              /\ SlotStatus(r, "LEVEL_1") = "APPROVED" /\ SlotStatus(r, "LEVEL_2") = "PENDING"
              /\ PurchaseOrdersOf(DB, r) = {}
              /\ \A u \in Level2Users, c \in Comments, d \in BOOLEAN :
                    LET res == approve_request(DB, GetRequest(DB, r), u, c, now, d)
                    IN  res.outcome = "OK" /\ res.db.requests[r].status = "APPROVED"
        /\ (Len(log[r]) = 2 /\ ApprovedBy(log[r][1], Level1Users)
                            /\ ApprovedBy(log[r][2], Level2Users)) =>
              /\ StatusOf(r) = "APPROVED"
              /\ SlotStatus(r, "LEVEL_1") = "APPROVED" /\ SlotStatus(r, "LEVEL_2") = "APPROVED"
              /\ Cardinality(PurchaseOrdersOf(DB, r)) = 1

C1_Witness ==
    \E r \in RequestIds :
        /\ Len(log[r]) = 2
        /\ ApprovedBy(log[r][1], Level1Users) /\ ApprovedBy(log[r][2], Level2Users)
        /\ StatusOf(r) = "APPROVED"
        /\ Cardinality(PurchaseOrdersOf(DB, r)) = 1

\* C2: for every request status and every actor role, can_approve returns true exactly
\* when (status = PENDING and role = approver_level_1) or (status = APPROVED_LEVEL_1 and
\* role = approver_level_2).
C2_CanApproveTable ==
    probe.approve # <<>> =>
        probe.approve[1] =
            (\/ probe.pr.row.status = "PENDING" /\ RoleOf[probe.user] = "approver_level_1"
             \/ probe.pr.row.status = "APPROVED_LEVEL_1"
                    /\ RoleOf[probe.user] = "approver_level_2")

C2_Witness ==
    /\ probe.approve = <<FALSE>>
    /\ probe.pr.row.status = "PENDING"
    /\ RoleOf[probe.user] = "approver_level_2"

\* C3: for every request status and every actor role, can_reject returns true exactly
\* when the role is approver_level_1 or approver_level_2 and the status is neither
\* APPROVED nor REJECTED, whichever level is pending.
C3_CanRejectTable ==
    probe.reject # <<>> =>
        probe.reject[1] =
            (/\ RoleOf[probe.user] \in {"approver_level_1", "approver_level_2"}
             /\ probe.pr.row.status \in {"PENDING", "APPROVED_LEVEL_1", "APPROVED_LEVEL_2"})

C3_Witness ==
    /\ probe.reject = <<TRUE>>
    /\ probe.pr.row.status = "PENDING"
    /\ RoleOf[probe.user] = "approver_level_2"

\* C4: whenever can_approve is false for the request and the actor, approve_request fails
\* with the authorization error and leaves the request, both slots and the purchase
\* orders unchanged.
C4_UnauthorizedApproveChangesNothing ==
    /\ [](\A r \in RequestIds, u \in Users, c \in Comments, d \in BOOLEAN :
             ~can_approve(GetRequest(DB, r), u) =>
                 approve_request(DB, GetRequest(DB, r), u, c, now, d).outcome
                     = "NotAuthorizedToApprove")
    /\ [][result' = "NotAuthorizedToApprove" => UNCHANGED dbvars]_vars

C4_Witness ==
    /\ result = "NotAuthorizedToApprove"
    /\ \E r \in RequestIds : StatusOf(r) = "APPROVED_LEVEL_1"

ApproverRoles == {"approver_level_1", "approver_level_2"}

OtherLevel(level) == IF level = "LEVEL_1" THEN "LEVEL_2" ELSE "LEVEL_1"

\* C5: once the slot of a level is decided, every later approve_request or
\* reject_request by an actor of that level fails and changes nothing.
C5_DecidedSlotRefusesCalls ==
    [][\A op \in Ops, r \in RequestIds, u \in Users, c \in Comments, d \in BOOLEAN :
          (/\ RoleOf[u] \in ApproverRoles
           /\ SlotStatus(r, LevelOfRole(RoleOf[u])) # "PENDING"
           /\ ServiceCall(op, r, u, c, d)) =>
              (result' # "OK" /\ UNCHANGED dbvars)]_vars

\* C6: a decided slot never changes again: its status, approver, comment and
\* approved_at stay as the deciding call wrote them.
C6_DecidedSlotImmutable ==
    [][\A a \in approvals : a.status # "PENDING" => a \in approvals']_vars

\* the request whose log grew by a reject in this step, and the rejecting actor's level
RejectedNow(r) ==
    /\ Len(log'[r]) = Len(log[r]) + 1
    /\ log'[r][Len(log'[r])].op = "reject"

RejecterLevel(r) == LevelOfRole(RoleOf[log'[r][Len(log'[r])].user])

RejectAlwaysAccepted ==
    \A r \in RequestIds, u \in Users, c \in Comments :
        (RoleOf[u] \in ApproverRoles /\ StatusOf(r) \in {"PENDING", "APPROVED_LEVEL_1"}) =>
            reject_request(DB, GetRequest(DB, r), u, c, now).outcome = "OK"

\* C7 as stated: reject_request by an approver at status PENDING or APPROVED_LEVEL_1
\* succeeds, sets the request and the actor's own slot to REJECTED, and the other slot
\* is untouched and still PENDING.
C7_RejectLeavesOtherPending ==
    /\ []RejectAlwaysAccepted
    /\ [][\A r \in RequestIds :
            RejectedNow(r) =>
                /\ requests'[r].status = "REJECTED"
                /\ GetApproval(DB', r, RejecterLevel(r)).status = "REJECTED"
                /\ GetApproval(DB', r, OtherLevel(RejecterLevel(r)))
                       = SlotOf(r, OtherLevel(RejecterLevel(r)))
                /\ GetApproval(DB', r, OtherLevel(RejecterLevel(r))).status = "PENDING"]_vars

\* C7 amended: reject_request by an approver at status PENDING or APPROVED_LEVEL_1
\* succeeds, sets the request and the actor's own slot to REJECTED, and the other slot
\* is left exactly as it was (PENDING, or APPROVED when level 1 had approved).
C7_RejectLeavesOtherUntouched ==
    /\ []RejectAlwaysAccepted
    /\ [][\A r \in RequestIds :
            RejectedNow(r) =>
                /\ requests'[r].status = "REJECTED"
                /\ GetApproval(DB', r, RejecterLevel(r)).status = "REJECTED"
                /\ GetApproval(DB', r, OtherLevel(RejecterLevel(r)))
                       = SlotOf(r, OtherLevel(RejecterLevel(r)))]_vars

C7_Witness ==
    /\ result = "OK"
    /\ \E r \in RequestIds :
          /\ Len(log[r]) = 2 /\ log[r][2].op = "reject"
          /\ StatusOf(r) = "REJECTED"
          /\ SlotStatus(r, "LEVEL_1") = "APPROVED"
          /\ SlotStatus(r, "LEVEL_2") = "REJECTED"

\* the aggregate status the two slots stand for
DerivedStatus(s1, s2) ==
    IF s1 = "REJECTED" \/ s2 = "REJECTED" THEN "REJECTED"
    ELSE IF s1 = "APPROVED" /\ s2 = "APPROVED" THEN "APPROVED"
    ELSE IF s1 = "APPROVED" /\ s2 = "PENDING" THEN "APPROVED_LEVEL_1"
    ELSE IF s1 = "PENDING" /\ s2 = "PENDING" THEN "PENDING"
    ELSE "NONE"

\* C8: in every committed state reached by serial create, approve_request and
\* reject_request calls the request status is the function of its two slots:
\* REJECTED if a slot is REJECTED, else APPROVED if both are APPROVED, else
\* APPROVED_LEVEL_1 if level 1 is APPROVED and level 2 PENDING, else PENDING if both
\* are PENDING; no other combination of slots occurs.
C8_StatusMirrorsLedger ==
    \A r \in RequestIds :
        StatusOf(r) = DerivedStatus(SlotStatus(r, "LEVEL_1"), SlotStatus(r, "LEVEL_2"))

C8_Witness ==
    \E r \in RequestIds :
        /\ StatusOf(r) = "REJECTED"
        /\ SlotStatus(r, "LEVEL_1") = "PENDING"
        /\ SlotStatus(r, "LEVEL_2") = "REJECTED"

\* C9: in every reachable state, also with overlapping calls on one request, a
\* PurchaseOrder exists for a request only if both slots are APPROVED and the status
\* is APPROVED.
C9_OrderOnlyWhenFullyApproved ==
    \A po \in purchase_orders :
        /\ StatusOf(po.purchase_request) = "APPROVED"
        /\ SlotStatus(po.purchase_request, "LEVEL_1") = "APPROVED"
        /\ SlotStatus(po.purchase_request, "LEVEL_2") = "APPROVED"

\* one call handled alone by its endpoint: load, then the service transaction
ServeAlone(db, c) ==
    IF ~IsAnyApprover(c.user) \/ ~Visible(db, c.req, c.user) THEN db
    ELSE RunCall(db, c.op, GetRequest(db, c.req), c.user, "", now, TRUE).db

\* status, slot statuses and number of purchase orders of a request
Outcome(db, r) ==
    [status |-> db.requests[r].status,
     level1 |-> GetApproval(db, r, "LEVEL_1").status,
     level2 |-> GetApproval(db, r, "LEVEL_2").status,
     orders |-> Cardinality(PurchaseOrdersOf(db, r))]

\* C10: two calls issued concurrently on one request leave the committed state
\* (status, both slots, purchase orders) that one of their two serial orders leaves.
C10_OverlappingCallsSerializable ==
    (/\ AllIdle
     /\ ~round.more
     /\ Len(round.calls) = 2
     /\ round.calls[1].req = round.calls[2].req) =>
        LET c1 == round.calls[1]
            c2 == round.calls[2]
            r == c1.req
        IN  Outcome(DB, r) \in
                { Outcome(ServeAlone(ServeAlone(round.base, c1), c2), r),
                  Outcome(ServeAlone(ServeAlone(round.base, c2), c1), r) }

\* both calls of the last group of overlapping calls are level-2 approvals of request r
TwoLevel2Approvals(r) ==
    /\ ~round.more
    /\ Len(round.calls) = 2
    /\ \A i \in 1..2 : /\ round.calls[i].req = r
                        /\ round.calls[i].op = "approve"
                        /\ round.calls[i].user \in Level2Users

\* C11: a request never has more than one PurchaseOrder, in any reachable state; of
\* two concurrent level-2 approve_request calls on one request at APPROVED_LEVEL_1 at
\* most one commits a PurchaseOrder and the other aborts without creating one.
C11_AtMostOneOrderPerRequest ==
    /\ [](\A r \in RequestIds : Cardinality(PurchaseOrdersOf(DB, r)) <= 1)
    /\ [][result' = "IntegrityError" => UNCHANGED dbvars]_vars

C11_Witness ==
    /\ AllIdle
    /\ result = "IntegrityError"
    /\ \E r \in RequestIds :
          /\ TwoLevel2Approvals(r)
          /\ round.base.requests[r].status = "APPROVED_LEVEL_1"
          /\ Cardinality(PurchaseOrdersOf(DB, r)) = 1

ApprovalsOf(db, r) == {a \in db.approvals : a.purchase_request = r}

\* C12: after a successful request creation the request has status PENDING and exactly
\* two approval rows, one LEVEL_1 and one LEVEL_2, both PENDING with no approver and no
\* approved_at, and no purchase order exists for it.
C12_CreatedRequestIsPending ==
    [][\A r \in (DOMAIN requests') \ RequestIds :
          result' = "OK" =>
              /\ requests'[r].status = "PENDING"
              /\ Cardinality(ApprovalsOf(DB', r)) = 2
              /\ {a.level : a \in ApprovalsOf(DB', r)} = {"LEVEL_1", "LEVEL_2"}
              /\ \A a \in ApprovalsOf(DB', r) :
                    a.status = "PENDING" /\ a.approver = NoUser /\ a.approved_at = <<>>
              /\ PurchaseOrdersOf(DB', r) = {}]_vars

C12_Witness ==
    /\ result = "OK"
    /\ \E r \in RequestIds : log[r] = <<>> /\ StatusOf(r) = "PENDING"
                              /\ Cardinality(ApprovalsOf(DB, r)) = 2

\* the errors approve_request can raise after its eligibility check
LateErrors == {"InvalidRole", "DoesNotExist", "IntegrityError"}

\* C13: approve_request is all-or-nothing: when a step after the eligibility check
\* fails (slot write, status write, PO-number conflict, PurchaseOrder creation) the
\* committed state after the call is the committed state before it; a level-2 approval
\* whose finalization fails leaves status APPROVED_LEVEL_1, the LEVEL_2 slot PENDING
\* and no PurchaseOrder.
C13_FailedApproveRollsBack ==
    /\ [](\A r \in RequestIds, u \in Users, c \in Comments, d \in BOOLEAN :
             LET res == approve_request(DB, GetRequest(DB, r), u, c, now, d)
             IN  res.outcome # "OK" => res.db = DB)
    /\ [][result' \in LateErrors =>
            /\ UNCHANGED dbvars
            /\ \A r \in RequestIds :
                  StatusOf(r) = "APPROVED_LEVEL_1" =>
                      /\ requests'[r].status = "APPROVED_LEVEL_1"
                      /\ GetApproval(DB', r, "LEVEL_2").status = "PENDING"
                      /\ PurchaseOrdersOf(DB', r) = {}]_vars

C13_Witness ==
    /\ result = "IntegrityError"
    /\ \E r \in RequestIds :
          /\ Len(log[r]) = 1
          /\ StatusOf(r) = "APPROVED_LEVEL_1"
          /\ SlotStatus(r, "LEVEL_2") = "PENDING"
          /\ PurchaseOrdersOf(DB, r) = {}

\* the request r is finalized in db and its one purchase order has no document
FinalizedWithoutDocument(db, r, amount) ==
    /\ db.requests[r].status = "APPROVED"
    /\ GetApproval(db, r, "LEVEL_1").status = "APPROVED"
    /\ GetApproval(db, r, "LEVEL_2").status = "APPROVED"
    /\ Cardinality(PurchaseOrdersOf(db, r)) = 1
    /\ \A po \in PurchaseOrdersOf(db, r) :
          /\ po.document = <<>>
          /\ Len(po.po_number.digits) >= PadWidth
          /\ po.total_amount = amount

\* C14: when document generation fails during finalize_approval the finalization still
\* commits: status APPROVED, both slots APPROVED, a PurchaseOrder with its number and
\* total amount but no document; approve_request does not report a failure.
C14_DocumentFailureStillCommits ==
    /\ [](\A r \in RequestIds, u \in Level2Users, c \in Comments :
             StatusOf(r) = "APPROVED_LEVEL_1" =>
                 LET res == approve_request(DB, GetRequest(DB, r), u, c, now, FALSE)
                 IN  /\ res.outcome = "OK"
                     /\ FinalizedWithoutDocument(res.db, r, requests[r].amount))
    /\ [][\A po \in purchase_orders' \ purchase_orders :
            po.document = <<>> =>
                /\ result' = "OK"
                /\ FinalizedWithoutDocument(DB', po.purchase_request,
                                            requests[po.purchase_request].amount)]_vars

C14_Witness ==
    /\ result = "OK"
    /\ \E r \in RequestIds :
          /\ Len(log[r]) = 2 /\ ApprovedBy(log[r][2], Level2Users)
          /\ FinalizedWithoutDocument(DB, r, requests[r].amount)

PoNumbers == {po.po_number : po \in purchase_orders}

\* the counters of the orders persisted on a date, as integers
CountersOn(date) == {ParseInt(po.po_number.digits) : po \in {q \in purchase_orders : q.po_number.date = date}}

MaxCounter(date) == CHOOSE k \in CountersOn(date) : \A j \in CountersOn(date) : j <= k

\* C15: under serial finalizations with no PurchaseOrder deleted, the k-th PurchaseOrder
\* persisted on a date D has number PO-D-<k padded to at least 4 digits>: the first is
\* 0001, each later one is one greater than the previous of that date, the counter
\* restarts at 1 on a new date, and no number is ever issued twice, for every k, also
\* beyond the 4-digit pad width.
C15_DailyCounterNeverRepeats ==
    /\ [](generate_po_number(purchase_orders, now) \notin PoNumbers)
    /\ [][\A po \in purchase_orders' \ purchase_orders :
            /\ po.po_number.date = DateOf(now)
            /\ po.po_number.digits =
                   Format04d(IF CountersOn(DateOf(now)) = {} THEN 1
                             ELSE MaxCounter(DateOf(now)) + 1)]_vars

\* the last group of overlapping calls were level-2 approvals of two different requests
TwoFinalizations ==
    /\ ~round.more
    /\ Len(round.calls) = 2
    /\ round.calls[1].req # round.calls[2].req
    /\ \A i \in 1..2 : round.calls[i].op = "approve" /\ round.calls[i].user \in Level2Users

\* C16: no two PurchaseOrders ever share a PO number, in any reachable state; when two
\* finalizations of different requests overlap on one date and read the same greatest
\* number, both compute the same new number, the unique index rejects the second
\* insert as a conflict and only one of the two PurchaseOrders is committed.
C16_PoNumbersUnique ==
    /\ [](\A po1 \in purchase_orders, po2 \in purchase_orders :
             po1.po_number = po2.po_number => po1 = po2)
    /\ [][result' = "IntegrityError" => UNCHANGED dbvars]_vars

C16_Witness ==
    /\ AllIdle
    /\ result = "IntegrityError"
    /\ TwoFinalizations
    /\ round.base.purchase_orders = {}
    /\ Cardinality(purchase_orders) = 1
    /\ \E i \in 1..2 :
          /\ StatusOf(round.calls[i].req) = "APPROVED_LEVEL_1"
          /\ StatusOf(round.calls[3 - i].req) = "APPROVED"

\* C17: every write of a RequestItem stores total_price = quantity * unit_price,
\* computed from the stored quantity and unit price, for every quantity >= 1 and unit
\* price >= 0, whatever total_price the caller supplied.
C17_TotalPriceRecomputed ==
    probe.saved # <<>> =>
        /\ probe.saved[1].outcome = "OK"
        /\ \A row \in {probe.saved[1].row[i] : i \in DOMAIN probe.saved[1].row} :
              /\ row.quantity = probe.item.quantity
              /\ row.unit_price = probe.item.unit_price
              /\ row.total_price = DecimalTimes(row.quantity, row.unit_price)

TerminalStatuses == {"APPROVED", "REJECTED"}

\* C18: APPROVED and REJECTED are terminal: once the committed status of a request is
\* APPROVED or REJECTED, no later call changes its status or either of its approval
\* slots.
C18_TerminalStatusesStay ==
    [][\A r \in RequestIds :
          StatusOf(r) \in TerminalStatuses =>
              /\ requests'[r].status = StatusOf(r)
              /\ \A level \in Levels : GetApproval(DB', r, level) = SlotOf(r, level)]_vars

\* C19: the PurchaseOrder created by finalize_approval has status GENERATED and
\* total_amount equal to the amount of the request at the moment of finalization: the
\* amount is copied, not recomputed from the items and not taken from extracted_data.
C19_OrderCopiesRequestAmount ==
    [][\A po \in purchase_orders' \ purchase_orders :
          /\ po.status = "GENERATED"
          /\ po.total_amount = requests[po.purchase_request].amount
          /\ po.total_amount = requests'[po.purchase_request].amount]_vars

C19_Witness ==
    \E po \in purchase_orders :
        LET r == po.purchase_request
        IN  /\ r \in RequestIds
            /\ StatusOf(r) = "APPROVED"
            /\ po.status = "GENERATED"
            /\ po.total_amount = requests[r].amount
            /\ ItemsOf(DB, r) # {}
            /\ SumOfTotals(ItemsOf(DB, r)) # requests[r].amount
            /\ DictGet(requests[r].extracted_data, "total_amount") # requests[r].amount

\* C20: create_approval_chain on a request that already has an approval chain fails
\* with a conflict error and leaves the two slots, with the decisions recorded on
\* them, unchanged, adding no third row; on a request without a chain it creates both
\* slots or neither.
C20_ChainCreatedOnce ==
    /\ [](\A r \in RequestIds :
             LET res == create_approval_chain(DB, r)
             IN  IF ApprovalsOf(DB, r) # {}
                 THEN res.outcome = "IntegrityError" /\ res.db = DB
                 ELSE Cardinality(ApprovalsOf(res.db, r)) \in {0, 2})
    /\ [][\A r \in RequestIds :
            /\ Cardinality(ApprovalsOf(DB', r)) \in {0, 2}
            /\ (ApprovalsOf(DB, r) # {} /\ result' = "IntegrityError") =>
                   ApprovalsOf(DB', r) = ApprovalsOf(DB, r)]_vars

C20_Witness ==
    /\ result = "IntegrityError"
    /\ \E r \in RequestIds :
          /\ Cardinality(ApprovalsOf(DB, r)) = 2
          /\ SlotStatus(r, "LEVEL_1") = "APPROVED"
          /\ SlotOf(r, "LEVEL_1").approver \in Level1Users

\* the worker whose edit or upload writes in this step
Writes(p) == inflight[p].pc = "editing" /\ inflight'[p].pc = "idle"

\* C21: the operations that are not workflow transitions (editing a request's fields or
\* items, upload_proforma, upload_receipt) never change the status of a request, also
\* when they loaded the request before a concurrent approve or reject committed and
\* write the row afterwards.
C21_EditsKeepStatus ==
    [][\A p \in Procs :
          (Writes(p) /\ inflight[p].op \in {"update", "upload_proforma", "upload_receipt"}) =>
              \A r \in RequestIds \cap DOMAIN requests' :
                  requests'[r].status = requests[r].status]_vars

\* C30: a request is edited or deleted only while its status is PENDING or REJECTED;
\* an update or delete attempted at APPROVED_LEVEL_1 or APPROVED is denied and leaves
\* the request, its items, its slots and its purchase order unchanged.
C30_EditOnlyPendingOrRejected ==
    /\ [](\A r \in RequestIds, u \in Users, op \in {"update", "destroy"} :
             StatusOf(r) \in {"APPROVED_LEVEL_1", "APPROVED"} =>
                 EditAdmission(DB, op, r, u) \in {"Forbidden", "NotFound"})
    /\ [][\A p \in Procs :
            (Writes(p) /\ inflight[p].op \in {"update", "destroy"}) =>
                LET r == inflight[p].pr.id
                IN  \/ r \notin RequestIds
                    \/ StatusOf(r) \in {"PENDING", "REJECTED"}
                    \/ UNCHANGED dbvars]_vars

\* C22: in every state reached by serial approve_request and reject_request calls the
\* LEVEL_2 slot is APPROVED only if the LEVEL_1 slot is APPROVED.
C22_Level2ApprovedOnlyAfterLevel1 ==
    \A r \in RequestIds :
        SlotStatus(r, "LEVEL_2") = "APPROVED" => SlotStatus(r, "LEVEL_1") = "APPROVED"

C22_Witness ==
    \E r \in RequestIds :
        /\ SlotStatus(r, "LEVEL_2") = "APPROVED"
        /\ SlotOf(r, "LEVEL_2").approver \in Level2Users
        /\ SlotOf(r, "LEVEL_1").approver \in Level1Users
        /\ Len(log[r]) = 2

\* the rows a reject_request by user on request r may write: the request row and the
\* slot of the user's level
RejectFrame(db1, db2, r, user) ==
    /\ db2.purchase_orders = db1.purchase_orders
    /\ db2.items = db1.items
    /\ DOMAIN db2.requests = DOMAIN db1.requests
    /\ \A x \in DOMAIN db1.requests :
          /\ x # r => db2.requests[x] = db1.requests[x]
          /\ db2.requests[x] = [db1.requests[x] EXCEPT !.status = db2.requests[x].status]
    /\ \A a \in db1.approvals :
          (a.purchase_request # r \/ a.level # LevelOfRole(RoleOf[user])) => a \in db2.approvals
    /\ Cardinality(db2.approvals) = Cardinality(db1.approvals)

\* C23: reject_request changes only the slot of the actor's own level and the request
\* status: the slot of the other level keeps its status, approver, comment and
\* approved_at (PENDING stays PENDING, APPROVED stays APPROVED), and no PurchaseOrder is
\* created or modified.
C23_RejectWritesOwnSlotAndStatus ==
    /\ [](\A r \in RequestIds, u \in Users, c \in Comments :
             RejectFrame(DB, reject_request(DB, GetRequest(DB, r), u, c, now).db, r, u))
    /\ [][\A r \in RequestIds :
            RejectedNow(r) =>
                /\ RejectFrame(DB, DB', r, log'[r][Len(log'[r])].user)
                /\ SlotStatus(r, OtherLevel(RejecterLevel(r))) \in {"PENDING", "APPROVED"}
                /\ GetApproval(DB', r, OtherLevel(RejecterLevel(r))).status
                       = SlotStatus(r, OtherLevel(RejecterLevel(r)))
                /\ purchase_orders' = purchase_orders]_vars

C23_Witness ==
    /\ result = "OK"
    /\ purchase_orders = {}
    /\ \E r \in RequestIds :
          /\ Len(log[r]) = 2 /\ log[r][2].op = "reject" /\ log[r][2].user \in Level2Users
          /\ SlotStatus(r, "LEVEL_2") = "REJECTED"
          /\ SlotStatus(r, "LEVEL_1") = "APPROVED"
          /\ SlotOf(r, "LEVEL_1").approver \in Level1Users
          /\ SlotOf(r, "LEVEL_1").comments \in Comments

NonApprovers == {u \in Users : RoleOf[u] \notin ApproverRoles}

\* C24: for an actor whose role is neither approver_level_1 nor approver_level_2,
\* approve_request and reject_request always fail on the eligibility check and leave
\* request, slots and purchase orders unchanged; the 'Invalid approver role' branch is
\* never reached in either function.
C24_NonApproverAlwaysRefused ==
    /\ [](\A r \in RequestIds, u \in NonApprovers, c \in Comments, d \in BOOLEAN :
             LET a == approve_request(DB, GetRequest(DB, r), u, c, now, d)
                 j == reject_request(DB, GetRequest(DB, r), u, c, now)
             IN  /\ a.outcome = "NotAuthorizedToApprove" /\ a.db = DB
                 /\ j.outcome = "NotAuthorizedToReject" /\ j.db = DB)
    /\ [](result # "InvalidRole")
    /\ [][result' \in {"NotAuthorizedToApprove", "NotAuthorizedToReject"} =>
            UNCHANGED dbvars]_vars

C24_Witness ==
    /\ result = "NotAuthorizedToReject"
    /\ RequestIds # {}
    /\ \A r \in RequestIds :
          /\ StatusOf(r) = "PENDING"
          /\ \A level \in Levels : SlotStatus(r, level) = "PENDING"

\* C25: in every committed state a request whose two slots are both APPROVED has status
\* APPROVED and a PurchaseOrder attached, and APPROVED_LEVEL_2 is never the status of a
\* request in a committed state.
C25_BothApprovedMeansOrdered ==
    \A r \in RequestIds :
        /\ StatusOf(r) # "APPROVED_LEVEL_2"
        /\ (\A level \in Levels : HasApproval(DB, r, level) /\ SlotStatus(r, level) = "APPROVED") =>
               (StatusOf(r) = "APPROVED" /\ PurchaseOrdersOf(DB, r) # {})

\* the digit part of the order of a date that is greatest in string order
LexGreatest(date) ==
    LET todays == {po.po_number.digits : po \in {q \in purchase_orders : q.po_number.date = date}}
    IN  CHOOSE d \in todays : \A e \in todays : e = d \/ LexLess(e, d)

\* C27: within one date the string order of the PO numbers is the order of creation:
\* every newly created order sorts after every existing order of its date, so the
\* greatest number in string order carries the largest sequence value.
C27_LexOrderIsCreationOrder ==
    [][\A po \in purchase_orders' \ purchase_orders :
          /\ \A q \in purchase_orders :
                q.po_number.date = po.po_number.date =>
                    LexLess(q.po_number.digits, po.po_number.digits)
          /\ ParseInt(LexGreatest(po.po_number.date)') = MaxCounter(po.po_number.date)']_vars

\* the vendor value the spec gives for key k of extracted_data ed
VendorValue(ed, k) ==
    IF ed.null \/ DOMAIN ed.d = {} \/ k \notin DOMAIN ed.d THEN "" ELSE ed.d[k]

\* extracted_data values: null, empty, some keys, every key, a key with an empty value
VendorSamples ==
    { NullData, MapData(<<>>),
      MapData([vendor_name |-> "Acme Ltd", total_amount |-> Cents(0, 440000)]),
      MapData([vendor_email |-> "sales@acme.test", vendor_phone |-> ""]),
      MapData([vendor_name |-> "Acme Ltd", vendor_address |-> "1 Main St",
               vendor_email |-> "sales@acme.test", vendor_phone |-> "+250 700 000 000"]) }

\* C29: finalize_approval sets each of vendor_name, vendor_address, vendor_email and
\* vendor_phone of the PurchaseOrder to the value under the same key of the request's
\* extracted_data, and to the empty string when the key is absent or extracted_data is
\* null or empty; nothing else of the request enters the vendor fields.
C29_VendorFieldsFromExtractedData ==
    /\ [](\A ed \in VendorSamples, k \in VendorKeys : VendorInfo(ed)[k] = VendorValue(ed, k))
    /\ [][\A po \in purchase_orders' \ purchase_orders :
            LET ed == requests[po.purchase_request].extracted_data
            IN  /\ po.vendor_name = VendorValue(ed, "vendor_name")
                /\ po.vendor_address = VendorValue(ed, "vendor_address")
                /\ po.vendor_email = VendorValue(ed, "vendor_email")
                /\ po.vendor_phone = VendorValue(ed, "vendor_phone")]_vars

C29_Witness ==
    \E po \in purchase_orders :
        /\ po.purchase_request \in RequestIds
        /\ po.vendor_name = "Acme Ltd"
        /\ po.vendor_address = ""
        /\ "vendor_name" \in DOMAIN requests[po.purchase_request].extracted_data.d
        /\ "vendor_address" \notin DOMAIN requests[po.purchase_request].extracted_data.d
        /\ ItemsOf(DB, po.purchase_request) # {}

C26_RequestAlwaysHasChain ==
    \A r \in RequestIds : \A level \in Levels : HasApproval(DB, r, level)

\* the call that was logged for request r in this step
LoggedNow(r) == Len(log'[r]) = Len(log[r]) + 1

LastCall(r) == log'[r][Len(log'[r])]

\* C32: in every reachable state, for each approval slot, status is PENDING iff
\* approved_at is unset, and a slot that is APPROVED or REJECTED records as approver the
\* actor of the call that decided it, whose role matches the level of the slot.
C32_SlotRecordsItsDecision ==
    /\ [](\A a \in approvals :
             /\ (a.status = "PENDING") <=> (a.approved_at = <<>>)
             /\ a.status # "PENDING" =>
                    (a.approver \in Users /\ LevelOfRole(RoleOf[a.approver]) = a.level))
    /\ [][\A r \in RequestIds :
            LoggedNow(r) =>
                LET a == GetApproval(DB', r, LevelOfRole(RoleOf[LastCall(r).user]))
                IN  /\ a.approver = LastCall(r).user
                    /\ a.approved_at = <<now>>
                    /\ a.status = IF LastCall(r).op = "approve" THEN "APPROVED"
                                  ELSE "REJECTED"]_vars

C32_Witness ==
    \E r \in RequestIds :
        /\ SlotStatus(r, "LEVEL_1") = "APPROVED"
        /\ SlotOf(r, "LEVEL_1").approver \in Level1Users
        /\ SlotOf(r, "LEVEL_1").approved_at # <<>>
        /\ SlotStatus(r, "LEVEL_2") = "REJECTED"
        /\ SlotOf(r, "LEVEL_2").approver \in Level2Users
        /\ SlotOf(r, "LEVEL_2").approved_at = <<now>>

\* C34: a request admits at most two successful workflow transitions: of any serial
\* sequence of approve_request and reject_request calls on it at most two succeed, then
\* the request is terminal and every further call fails.
C34_AtMostTwoTransitions ==
    /\ [](\A r \in RequestIds :
             /\ Len(log[r]) <= 2
             /\ Len(log[r]) = 2 => StatusOf(r) \in TerminalStatuses
             /\ StatusOf(r) \in TerminalStatuses =>
                    \A u \in Users, c \in Comments :
                        /\ approve_request(DB, GetRequest(DB, r), u, c, now, TRUE).outcome # "OK"
                        /\ reject_request(DB, GetRequest(DB, r), u, c, now).outcome # "OK")
    /\ [][\A r \in RequestIds :
            StatusOf(r) \in TerminalStatuses =>
                /\ log'[r] = log[r]
                /\ requests'[r] = requests[r]
                /\ ApprovalsOf(DB', r) = ApprovalsOf(DB, r)
                /\ PurchaseOrdersOf(DB', r) = PurchaseOrdersOf(DB, r)]_vars

C34_Witness ==
    /\ result \in {"NotAuthorizedToApprove", "NotAuthorizedToReject"}
    /\ \E r \in RequestIds :
          /\ Len(log[r]) = 2
          /\ StatusOf(r) = "APPROVED"

\* C37: the created_by of every PurchaseOrder is the actor recorded as approver on the
\* LEVEL_2 slot of its request, in every state reached by serial workflow operations.
C37_OrderCreatedByLevel2Approver ==
    \A po \in purchase_orders :
        po.purchase_request \in RequestIds =>
            /\ po.created_by \in Level2Users
            /\ po.created_by = SlotOf(po.purchase_request, "LEVEL_2").approver

C37_Witness ==
    \E po \in purchase_orders :
        /\ po.purchase_request \in RequestIds
        /\ po.created_by \in Level2Users
        /\ SlotStatus(po.purchase_request, "LEVEL_2") = "APPROVED"
        /\ SlotOf(po.purchase_request, "LEVEL_1").approver # po.created_by

\* C33: through the HTTP approve and reject endpoints a LEVEL_2 approver can neither
\* approve nor reject a request whose status is PENDING and a LEVEL_1 approver can
\* neither approve nor reject a request whose status is no longer PENDING; so under
\* serial calls through these endpoints each slot is decided at most once.
C33_EndpointsActOnlyAtOwnStage ==
    /\ [](\A r \in RequestIds :
             /\ StatusOf(r) = "PENDING" => \A u \in Level2Users : ~Visible(DB, r, u)
             /\ StatusOf(r) # "PENDING" => \A u \in Level1Users : ~Visible(DB, r, u))
    /\ [][\A a \in approvals' \ approvals :
            a.status # "PENDING" =>
                /\ a.level = "LEVEL_1" => StatusOf(a.purchase_request) = "PENDING"
                /\ a.level = "LEVEL_2" => StatusOf(a.purchase_request) = "APPROVED_LEVEL_1"
                /\ SlotStatus(a.purchase_request, a.level) = "PENDING"]_vars

C33_Witness ==
    /\ result = "NotFound"
    /\ \E r \in RequestIds :
          /\ StatusOf(r) = "REJECTED"
          /\ SlotStatus(r, "LEVEL_1") = "APPROVED"
          /\ SlotStatus(r, "LEVEL_2") = "REJECTED"

\* the purchase-order table with po given status s
WithStatus(pos, po, s) == (pos \ {po}) \cup {[po EXCEPT !.status = s]}

C35_VendorBlockIffAnyVendorField ==
    probe.document # <<>> =>
        ((probe.document[1].vendor # <<>>) <=> (\E k \in VendorKeys : probe.po[k] # ""))

\* C36: the generated purchase-order document contains an items table exactly when the
\* request has at least one item; the table has one row per item, and the description
\* of each row is the first 50 characters of the item's description, the whole
\* description when that has 50 characters or fewer.
C36_ItemsTableRows ==
    probe.document # <<>> =>
        LET doc == probe.document[1]
        IN  /\ (doc.items # <<>>) <=> (Len(probe.items) >= 1)
            /\ doc.items # <<>> =>
                   /\ Len(doc.items[1]) = Len(probe.items)
                   /\ \A n \in 1..Len(probe.items) :
                         LET d == probe.items[n].description
                             row == doc.items[1][n]
                         IN  /\ row.item_name = probe.items[n].item_name
                             /\ Len(row.description) <= 50
                             /\ Len(d) <= 50 => row.description = d
                             /\ Len(d) > 50 =>
                                    /\ Len(row.description) = 50
                                    /\ \A i \in 1..50 : row.description[i] = d[i]

C36_Witness ==
    /\ probe.document # <<>>
    /\ Len(probe.items) = 2
    /\ Len(probe.items[1].description) = 50
    /\ Len(probe.items[2].description) = 51
    /\ Len(probe.document[1].items[1]) = 2
    /\ Len(probe.document[1].items[1][2].description) = 50

====
